---- MODULE Spec2Model ----
(***************************************************************************)
(* A model of src/convert.py: the conversion of a step-indexed array store *)
(* (the source, read through adios2) into a dimensioned dataset (the       *)
(* destination, written through netCDF4), serially or by several MPI ranks.*)
(*                                                                         *)
(* Python strings are sequences of characters, Python lists and numpy      *)
(* vectors are sequences, Python dicts are sequences of [k, v] records in  *)
(* insertion order.  A character is the one-character string of itself     *)
(* when it is printable ASCII or one of \t \n \f \r, and the name of its   *)
(* code point, as "U+00A0", otherwise.  Indices into arrays are 0-based,   *)
(* as in the code; positions in a TLA+ sequence are 1-based.               *)
(***************************************************************************)
EXTENDS Integers, Sequences, FiniteSets, TLC

\* ------------------------------------------------------------------ bounds
\* Longest catalog of variables a source holds.
MaxVars == 2
\* Largest number of steps a source holds.
MaxSteps == 2
\* Largest world size of the interleaved specification.
MaxRanks == 2
\* Largest number of user attributes a source holds besides the schema ones.
MaxAttrs == 1
\* Smallest and largest world size of the specification of large groups.
MinWide == 25
MaxWide == 26
\* Largest number of steps of a source in the specification of large groups.
WideSteps == 1
\* Largest number of ranks of a large group that have gone on after open_files.
MaxActive == 2
\* Largest world size the decomposition is applied to on its own.
MaxProc == 53

\* ------------------------------------------------- program constants
\* convert.py:122, "do not decompose small arrays"
DecompThreshold == 50

\* ------------------------------------------------------- Python helpers
SeqRange(s) == {s[j] : j \in 1..Len(s)}

\* list.reverse()
Reverse(s) == [j \in 1..Len(s) |-> s[Len(s) + 1 - j]]

\* str.startswith(p)
StartsWith(s, p) == Len(s) >= Len(p) /\ SubSeq(s, 1, Len(p)) = p

\* "p in s" on strings: p occurs somewhere in s
Contains(s, p) ==
    \E j \in 1..(Len(s) - Len(p) + 1) : SubSeq(s, j, j + Len(p) - 1) = p

\* s[n:]
DropPrefix(s, n) == SubSeq(s, n + 1, Len(s))

RECURSIVE SplitFrom(_, _, _, _)
SplitFrom(s, sep, j, cur) ==
    IF j > Len(s) THEN <<cur>>
    ELSE IF s[j] = sep THEN <<cur>> \o SplitFrom(s, sep, j + 1, <<>>)
    ELSE SplitFrom(s, sep, j + 1, Append(cur, s[j]))

\* str.split(sep) for a one-character separator
Split(s, sep) == SplitFrom(s, sep, 1, <<>>)

\* the characters int() strips from both ends of its argument: the white
\* space of ASCII (without the separators U+001C..U+001F) and of the other
\* scripts
Whitespace ==
    { "\t", "\n", "U+000B", "\f", "\r", " ", "U+0085", "U+00A0", "U+1680", "U+2000",
      "U+2001", "U+2002", "U+2003", "U+2004", "U+2005", "U+2006", "U+2007", "U+2008",
      "U+2009", "U+200A", "U+2028", "U+2029", "U+202F", "U+205F", "U+3000" }

\* the decimal digits of Unicode 14.0.0 (category Nd), by value: DecimalDigits[v + 1]
\* holds the characters int() reads as the digit v
DecimalDigits ==
    << { "0", "U+0660", "U+06F0", "U+07C0", "U+0966", "U+09E6", "U+0A66", "U+0AE6",
         "U+0B66", "U+0BE6", "U+0C66", "U+0CE6", "U+0D66", "U+0DE6", "U+0E50", "U+0ED0",
         "U+0F20", "U+1040", "U+1090", "U+17E0", "U+1810", "U+1946", "U+19D0", "U+1A80",
         "U+1A90", "U+1B50", "U+1BB0", "U+1C40", "U+1C50", "U+A620", "U+A8D0", "U+A900",
         "U+A9D0", "U+A9F0", "U+AA50", "U+ABF0", "U+FF10", "U+104A0", "U+10D30", "U+11066",
         "U+110F0", "U+11136", "U+111D0", "U+112F0", "U+11450", "U+114D0", "U+11650",
         "U+116C0", "U+11730", "U+118E0", "U+11950", "U+11C50", "U+11D50", "U+11DA0",
         "U+16A60", "U+16AC0", "U+16B50", "U+1D7CE", "U+1D7D8", "U+1D7E2", "U+1D7EC",
         "U+1D7F6", "U+1E140", "U+1E2F0", "U+1E950", "U+1FBF0" },
       { "1", "U+0661", "U+06F1", "U+07C1", "U+0967", "U+09E7", "U+0A67", "U+0AE7",
         "U+0B67", "U+0BE7", "U+0C67", "U+0CE7", "U+0D67", "U+0DE7", "U+0E51", "U+0ED1",
         "U+0F21", "U+1041", "U+1091", "U+17E1", "U+1811", "U+1947", "U+19D1", "U+1A81",
         "U+1A91", "U+1B51", "U+1BB1", "U+1C41", "U+1C51", "U+A621", "U+A8D1", "U+A901",
         "U+A9D1", "U+A9F1", "U+AA51", "U+ABF1", "U+FF11", "U+104A1", "U+10D31", "U+11067",
         "U+110F1", "U+11137", "U+111D1", "U+112F1", "U+11451", "U+114D1", "U+11651",
         "U+116C1", "U+11731", "U+118E1", "U+11951", "U+11C51", "U+11D51", "U+11DA1",
         "U+16A61", "U+16AC1", "U+16B51", "U+1D7CF", "U+1D7D9", "U+1D7E3", "U+1D7ED",
         "U+1D7F7", "U+1E141", "U+1E2F1", "U+1E951", "U+1FBF1" },
       { "2", "U+0662", "U+06F2", "U+07C2", "U+0968", "U+09E8", "U+0A68", "U+0AE8",
         "U+0B68", "U+0BE8", "U+0C68", "U+0CE8", "U+0D68", "U+0DE8", "U+0E52", "U+0ED2",
         "U+0F22", "U+1042", "U+1092", "U+17E2", "U+1812", "U+1948", "U+19D2", "U+1A82",
         "U+1A92", "U+1B52", "U+1BB2", "U+1C42", "U+1C52", "U+A622", "U+A8D2", "U+A902",
         "U+A9D2", "U+A9F2", "U+AA52", "U+ABF2", "U+FF12", "U+104A2", "U+10D32", "U+11068",
         "U+110F2", "U+11138", "U+111D2", "U+112F2", "U+11452", "U+114D2", "U+11652",
         "U+116C2", "U+11732", "U+118E2", "U+11952", "U+11C52", "U+11D52", "U+11DA2",
         "U+16A62", "U+16AC2", "U+16B52", "U+1D7D0", "U+1D7DA", "U+1D7E4", "U+1D7EE",
         "U+1D7F8", "U+1E142", "U+1E2F2", "U+1E952", "U+1FBF2" },
       { "3", "U+0663", "U+06F3", "U+07C3", "U+0969", "U+09E9", "U+0A69", "U+0AE9",
         "U+0B69", "U+0BE9", "U+0C69", "U+0CE9", "U+0D69", "U+0DE9", "U+0E53", "U+0ED3",
         "U+0F23", "U+1043", "U+1093", "U+17E3", "U+1813", "U+1949", "U+19D3", "U+1A83",
         "U+1A93", "U+1B53", "U+1BB3", "U+1C43", "U+1C53", "U+A623", "U+A8D3", "U+A903",
         "U+A9D3", "U+A9F3", "U+AA53", "U+ABF3", "U+FF13", "U+104A3", "U+10D33", "U+11069",
         "U+110F3", "U+11139", "U+111D3", "U+112F3", "U+11453", "U+114D3", "U+11653",
         "U+116C3", "U+11733", "U+118E3", "U+11953", "U+11C53", "U+11D53", "U+11DA3",
         "U+16A63", "U+16AC3", "U+16B53", "U+1D7D1", "U+1D7DB", "U+1D7E5", "U+1D7EF",
         "U+1D7F9", "U+1E143", "U+1E2F3", "U+1E953", "U+1FBF3" },
       { "4", "U+0664", "U+06F4", "U+07C4", "U+096A", "U+09EA", "U+0A6A", "U+0AEA",
         "U+0B6A", "U+0BEA", "U+0C6A", "U+0CEA", "U+0D6A", "U+0DEA", "U+0E54", "U+0ED4",
         "U+0F24", "U+1044", "U+1094", "U+17E4", "U+1814", "U+194A", "U+19D4", "U+1A84",
         "U+1A94", "U+1B54", "U+1BB4", "U+1C44", "U+1C54", "U+A624", "U+A8D4", "U+A904",
         "U+A9D4", "U+A9F4", "U+AA54", "U+ABF4", "U+FF14", "U+104A4", "U+10D34", "U+1106A",
         "U+110F4", "U+1113A", "U+111D4", "U+112F4", "U+11454", "U+114D4", "U+11654",
         "U+116C4", "U+11734", "U+118E4", "U+11954", "U+11C54", "U+11D54", "U+11DA4",
         "U+16A64", "U+16AC4", "U+16B54", "U+1D7D2", "U+1D7DC", "U+1D7E6", "U+1D7F0",
         "U+1D7FA", "U+1E144", "U+1E2F4", "U+1E954", "U+1FBF4" },
       { "5", "U+0665", "U+06F5", "U+07C5", "U+096B", "U+09EB", "U+0A6B", "U+0AEB",
         "U+0B6B", "U+0BEB", "U+0C6B", "U+0CEB", "U+0D6B", "U+0DEB", "U+0E55", "U+0ED5",
         "U+0F25", "U+1045", "U+1095", "U+17E5", "U+1815", "U+194B", "U+19D5", "U+1A85",
         "U+1A95", "U+1B55", "U+1BB5", "U+1C45", "U+1C55", "U+A625", "U+A8D5", "U+A905",
         "U+A9D5", "U+A9F5", "U+AA55", "U+ABF5", "U+FF15", "U+104A5", "U+10D35", "U+1106B",
         "U+110F5", "U+1113B", "U+111D5", "U+112F5", "U+11455", "U+114D5", "U+11655",
         "U+116C5", "U+11735", "U+118E5", "U+11955", "U+11C55", "U+11D55", "U+11DA5",
         "U+16A65", "U+16AC5", "U+16B55", "U+1D7D3", "U+1D7DD", "U+1D7E7", "U+1D7F1",
         "U+1D7FB", "U+1E145", "U+1E2F5", "U+1E955", "U+1FBF5" },
       { "6", "U+0666", "U+06F6", "U+07C6", "U+096C", "U+09EC", "U+0A6C", "U+0AEC",
         "U+0B6C", "U+0BEC", "U+0C6C", "U+0CEC", "U+0D6C", "U+0DEC", "U+0E56", "U+0ED6",
         "U+0F26", "U+1046", "U+1096", "U+17E6", "U+1816", "U+194C", "U+19D6", "U+1A86",
         "U+1A96", "U+1B56", "U+1BB6", "U+1C46", "U+1C56", "U+A626", "U+A8D6", "U+A906",
         "U+A9D6", "U+A9F6", "U+AA56", "U+ABF6", "U+FF16", "U+104A6", "U+10D36", "U+1106C",
         "U+110F6", "U+1113C", "U+111D6", "U+112F6", "U+11456", "U+114D6", "U+11656",
         "U+116C6", "U+11736", "U+118E6", "U+11956", "U+11C56", "U+11D56", "U+11DA6",
         "U+16A66", "U+16AC6", "U+16B56", "U+1D7D4", "U+1D7DE", "U+1D7E8", "U+1D7F2",
         "U+1D7FC", "U+1E146", "U+1E2F6", "U+1E956", "U+1FBF6" },
       { "7", "U+0667", "U+06F7", "U+07C7", "U+096D", "U+09ED", "U+0A6D", "U+0AED",
         "U+0B6D", "U+0BED", "U+0C6D", "U+0CED", "U+0D6D", "U+0DED", "U+0E57", "U+0ED7",
         "U+0F27", "U+1047", "U+1097", "U+17E7", "U+1817", "U+194D", "U+19D7", "U+1A87",
         "U+1A97", "U+1B57", "U+1BB7", "U+1C47", "U+1C57", "U+A627", "U+A8D7", "U+A907",
         "U+A9D7", "U+A9F7", "U+AA57", "U+ABF7", "U+FF17", "U+104A7", "U+10D37", "U+1106D",
         "U+110F7", "U+1113D", "U+111D7", "U+112F7", "U+11457", "U+114D7", "U+11657",
         "U+116C7", "U+11737", "U+118E7", "U+11957", "U+11C57", "U+11D57", "U+11DA7",
         "U+16A67", "U+16AC7", "U+16B57", "U+1D7D5", "U+1D7DF", "U+1D7E9", "U+1D7F3",
         "U+1D7FD", "U+1E147", "U+1E2F7", "U+1E957", "U+1FBF7" },
       { "8", "U+0668", "U+06F8", "U+07C8", "U+096E", "U+09EE", "U+0A6E", "U+0AEE",
         "U+0B6E", "U+0BEE", "U+0C6E", "U+0CEE", "U+0D6E", "U+0DEE", "U+0E58", "U+0ED8",
         "U+0F28", "U+1048", "U+1098", "U+17E8", "U+1818", "U+194E", "U+19D8", "U+1A88",
         "U+1A98", "U+1B58", "U+1BB8", "U+1C48", "U+1C58", "U+A628", "U+A8D8", "U+A908",
         "U+A9D8", "U+A9F8", "U+AA58", "U+ABF8", "U+FF18", "U+104A8", "U+10D38", "U+1106E",
         "U+110F8", "U+1113E", "U+111D8", "U+112F8", "U+11458", "U+114D8", "U+11658",
         "U+116C8", "U+11738", "U+118E8", "U+11958", "U+11C58", "U+11D58", "U+11DA8",
         "U+16A68", "U+16AC8", "U+16B58", "U+1D7D6", "U+1D7E0", "U+1D7EA", "U+1D7F4",
         "U+1D7FE", "U+1E148", "U+1E2F8", "U+1E958", "U+1FBF8" },
       { "9", "U+0669", "U+06F9", "U+07C9", "U+096F", "U+09EF", "U+0A6F", "U+0AEF",
         "U+0B6F", "U+0BEF", "U+0C6F", "U+0CEF", "U+0D6F", "U+0DEF", "U+0E59", "U+0ED9",
         "U+0F29", "U+1049", "U+1099", "U+17E9", "U+1819", "U+194F", "U+19D9", "U+1A89",
         "U+1A99", "U+1B59", "U+1BB9", "U+1C49", "U+1C59", "U+A629", "U+A8D9", "U+A909",
         "U+A9D9", "U+A9F9", "U+AA59", "U+ABF9", "U+FF19", "U+104A9", "U+10D39", "U+1106F",
         "U+110F9", "U+1113F", "U+111D9", "U+112F9", "U+11459", "U+114D9", "U+11659",
         "U+116C9", "U+11739", "U+118E9", "U+11959", "U+11C59", "U+11D59", "U+11DA9",
         "U+16A69", "U+16AC9", "U+16B59", "U+1D7D7", "U+1D7E1", "U+1D7EB", "U+1D7F5",
         "U+1D7FF", "U+1E149", "U+1E2F9", "U+1E959", "U+1FBF9" } >>

Digits == UNION {DecimalDigits[v] : v \in 1..10}

\* the value of a decimal digit (of no other character: int() raises)
DigitVal(c) == (CHOOSE v \in 1..10 : c \in DecimalDigits[v]) - 1

RECURSIVE Strip(_)
Strip(s) ==
    IF s # <<>> /\ s[1] \in Whitespace THEN Strip(SubSeq(s, 2, Len(s)))
    ELSE IF s # <<>> /\ s[Len(s)] \in Whitespace THEN Strip(SubSeq(s, 1, Len(s) - 1))
    ELSE s

\* the stripped numeral without its sign
Unsigned(s) ==
    LET t == Strip(s)
    IN  IF t # <<>> /\ t[1] \in {"+", "-"} THEN SubSeq(t, 2, Len(t)) ELSE t

\* int(s) raises ValueError unless s is, between optional whitespace of any
\* script, an optional sign and a run of decimal digits of any script with
\* single "_" between digits
IsInt(s) ==
    LET u == Unsigned(s)
    IN  /\ Len(u) > 0
        /\ u[1] \in Digits
        /\ u[Len(u)] \in Digits
        /\ \A j \in 1..Len(u) : u[j] \in Digits \cup {"_"}
        /\ \A j \in 1..(Len(u) - 1) : ~(u[j] = "_" /\ u[j + 1] = "_")

\* the value of a run of digits, "_" skipped
RECURSIVE DigitsValue(_)
DigitsValue(u) ==
    IF u = <<>> THEN 0
    ELSE IF u[Len(u)] = "_" THEN DigitsValue(SubSeq(u, 1, Len(u) - 1))
    ELSE 10 * DigitsValue(SubSeq(u, 1, Len(u) - 1)) + DigitVal(u[Len(u)])

\* int(s)
IntOf(s) ==
    LET t == Strip(s)
    IN  (IF t # <<>> /\ t[1] = "-" THEN -1 ELSE 1) * DigitsValue(Unsigned(s))

\* dict: k in d, d[k], d[k] = v
DictKeys(d) == {d[j].k : j \in 1..Len(d)}

DictGet(d, key) == d[CHOOSE j \in 1..Len(d) : d[j].k = key].v

DictSet(d, key, val) ==
    IF key \in DictKeys(d)
    THEN [j \in 1..Len(d) |-> IF d[j].k = key THEN [k |-> key, v |-> val] ELSE d[j]]
    ELSE Append(d, [k |-> key, v |-> val])

\* numpy.argmax: the first position of the maximum (1-based here)
ArgMax(a) ==
    CHOOSE j \in 1..Len(a) :
        /\ \A m \in 1..Len(a) : a[m] <= a[j]
        /\ \A m \in 1..(j - 1) : a[m] < a[j]

\* all index vectors of an array of the given shape (0-based entries)
RECURSIVE Box(_)
Box(shape) ==
    IF shape = <<>> THEN {<<>>}
    ELSE {<<a>> \o t : a \in 0..(Head(shape) - 1), t \in Box(Tail(shape))}

\* elementwise sum of two index vectors
VecAdd(a, b) == [j \in 1..Len(a) |-> a[j] + b[j]]

RECURSIVE Product(_)
Product(shape) == IF shape = <<>> THEN 1 ELSE Head(shape) * Product(Tail(shape))

Min(a, b) == IF a < b THEN a ELSE b

\* ------------------------------------------------------------ decomposer
\* A rank's share of an axis of datasize elements: <<start, size>>.
Locate_dropextra(rank, nproc_, datasize) ==
    <<(datasize \div nproc_) * rank, datasize \div nproc_>>

Locate(rank, nproc_, datasize) ==
    LET extra == IF rank = nproc_ - 1 THEN datasize % nproc_ ELSE 0
        num == datasize \div nproc_
    IN  <<num * rank, num + extra>>

\* vars[var]["Shape"].split(","), list(map(int, ...))
ShapeOk(shapestr) == \A j \in 1..Len(Split(shapestr, ",")) : IsInt(Split(shapestr, ",")[j])

ParseShape(shapestr) ==
    LET parts == Split(shapestr, ",")
    IN  [j \in 1..Len(parts) |-> IntOf(parts[j])]

\* decomp for one rank of a world of size_ ranks: <<start_arr, count_arr>>
decomp(shapestr, rank, size_) ==
    LET dshape == ParseShape(shapestr)
        max_ind == ArgMax(dshape)
        zeros == [j \in 1..Len(dshape) |-> 0]
    IN  IF dshape[max_ind] < DecompThreshold
        THEN <<zeros, dshape>>
        ELSE LET loc == Locate(rank, size_, dshape[max_ind])
             IN  <<[j \in 1..Len(dshape) |-> IF j = max_ind THEN loc[1] ELSE 0],
                   [j \in 1..Len(dshape) |-> IF j = max_ind THEN loc[2] ELSE dshape[j]]>>

\* ------------------------------------------------------------- the source
\* Names the code spells out.
TimeName == <<"T", "i", "m", "e">>
DimMarker == <<"_", "D", "I", "M", "_">>
DimsAttr == <<"D", "i", "m", "s">>
SlashDims == <<"/">> \o DimsAttr

\* The dimensions a source may declare: name and length (as the text of the
\* "_DIM_<name>" attribute's value).
DimTable ==
    << [k |-> <<"x">>, v |-> <<"3">>],
       [k |-> <<"y">>, v |-> <<" ", "2">>],
       [k |-> <<"u">>, v |-> <<"U+0661", "U+000B">>],
       [k |-> <<"c">>, v |-> <<"4">>],
       [k |-> <<"n">>, v |-> <<"5", "0">>],
       [k |-> <<"m">>, v |-> <<"1", "0", "0">>] >>

\* The variables a source may hold: name, element-type tag, shape as
\* available_variables() reports it, and the names of its "Dims" attribute.
VarS == [name |-> <<"S">>, Type |-> "string", Shape |-> <<>>,
         Dims |-> <<<<"c">>, TimeName>>]
VarC == [name |-> <<"C">>, Type |-> "float", Shape |-> <<"1">>,
         Dims |-> <<TimeName>>]
VarP == [name |-> <<"P">>, Type |-> "float", Shape |-> <<"3">>,
         Dims |-> <<<<"x">>, TimeName>>]
VarQ == [name |-> <<"Q">>, Type |-> "int32_t", Shape |-> <<"2", ",", " ", "3">>,
         Dims |-> <<<<"x">>, <<"y">>, TimeName>>]
VarR == [name |-> <<"R">>, Type |-> "float", Shape |-> <<"2", ",", "1", ",", "3">>,
         Dims |-> <<<<"x">>, <<"u">>, <<"y">>, TimeName>>]
VarH == [name |-> <<"H">>, Type |-> "float",
         Shape |-> <<"1", ",", "1", ",", "1", ",", "2">>,
         Dims |-> <<<<"y">>, <<"u">>, <<"u">>, <<"u">>, TimeName>>]
VarB == [name |-> <<"B">>, Type |-> "float", Shape |-> <<"5", "0">>,
         Dims |-> <<<<"n">>, TimeName>>]
VarG == [name |-> <<"G">>, Type |-> "int32_t", Shape |-> <<"2", ",", " ", "5", "0">>,
         Dims |-> <<<<"n">>, <<"y">>, TimeName>>]
\* the variable of the end-to-end scenario: shape [4,100], destination [100,4]
VarTemp == [name |-> <<"t", "e", "m", "p">>, Type |-> "float",
            Shape |-> <<"4", ",", "1", "0", "0">>,
            Dims |-> <<<<"c">>, <<"m">>, TimeName>>]
\* an element type the type map does not know
VarD == [name |-> <<"D">>, Type |-> "double", Shape |-> <<"3">>,
         Dims |-> <<<<"x">>, TimeName>>]
\* a variable whose "Dims" attribute does not name Time
VarN == [name |-> <<"N">>, Type |-> "float", Shape |-> <<"3">>,
         Dims |-> <<<<"x">>>>]

VarPool == {VarS, VarC, VarP, VarQ, VarR, VarH, VarB, VarG, VarTemp, VarD, VarN}

\* User attributes a source may hold, in the order the reader lists them.
AttrUnits == [key |-> <<"u", "n", "i", "t", "s">>, Type |-> "string", Value |-> <<"K">>]
AttrDX == [key |-> <<"D", "X">>, Type |-> "float", Value |-> <<"1", "2">>]
AttrPUnits == [key |-> <<"P", "/", "u", "n", "i", "t">>, Type |-> "string",
               Value |-> <<"m">>]
AttrPDims2 == [key |-> <<"P", "/", "D", "i", "m", "s", "2">>, Type |-> "int32_t",
               Value |-> <<"7">>]
AttrNested == [key |-> <<"P", "/", "a", "/", "b">>, Type |-> "string",
               Value |-> <<"z">>]
AttrDimTime == [key |-> DimMarker \o TimeName, Type |-> "int32_t",
                Value |-> <<"2">>]

AttrPool == <<AttrUnits, AttrDX, AttrPUnits, AttrPDims2, AttrNested, AttrDimTime>>

\* the sub-sequence of s at the positions in idx
RECURSIVE Pick(_, _, _)
Pick(s, idx, j) ==
    IF j > Len(s) THEN <<>>
    ELSE (IF j \in idx THEN <<s[j]>> ELSE <<>>) \o Pick(s, idx, j + 1)

\* the dimension names a catalog uses
DimsUsed(cat) == UNION {SeqRange(cat[j].Dims) : j \in 1..Len(cat)}

\* the attributes of a source file: the user attributes, one "_DIM_<name>"
\* entry per dimension, one "<var>/Dims" entry per variable
SourceAttrs(cat, extra) ==
    extra
    \o [j \in 1..Len(Pick(DimTable, {m \in 1..Len(DimTable) : DimTable[m].k \in DimsUsed(cat)}, 1)) |->
          LET d == Pick(DimTable, {m \in 1..Len(DimTable) : DimTable[m].k \in DimsUsed(cat)}, 1)[j]
          IN  [key |-> DimMarker \o d.k, Type |-> "int32_t", Value |-> d.v]]
    \o [j \in 1..Len(cat) |->
          [key |-> cat[j].name \o SlashDims, Type |-> "string", Value |-> cat[j].Dims]]

\* available_variables(): name, Type and Shape of each variable, in order
SourceVars(cat) ==
    [j \in 1..Len(cat) |-> [name |-> cat[j].name, Type |-> cat[j].Type, Shape |-> cat[j].Shape]]

\* catalogs of 1..n variables with distinct names, drawn from pool
Catalogs(pool, n) ==
    {cat \in UNION {[1..m -> pool] : m \in 1..n} :
        \A a, b \in 1..Len(cat) : a # b => cat[a].name # cat[b].name}

\* The value the source holds at index idx of a variable at step s.  Every
\* cell of every step is distinct, so a copy from the wrong step or the
\* wrong index shows.
SrcVal(s, idx) == <<s, idx>>

\* ------------------------------------------------------------------ state
VARIABLES
    src_attrs,      \* adios2f.available_attributes(): sequence of [key, Type, Value]
    src_vars,       \* adios2f.available_variables(): sequence of [name, Type, Shape]
    src_steps,      \* adios2f.steps()
    nproc,          \* MPI.COMM_WORLD.Get_size()
    diskless,       \* convert's diskless argument
    pc,             \* per rank: where the rank is in convert
    cur_step,       \* per rank: the step the source reader is positioned on
    var_attrs,      \* per rank: r_attrs' dict of dicts
    global_attrs,   \* per rank: r_attrs' dict
    dim_lens,       \* per rank: r_metadata's dict
    var_dims,       \* per rank: r_metadata's dict
    var_types,      \* per rank: r_metadata's dict
    i_var,          \* per rank: index of the copy loop's variable (0-based)
    step,           \* per rank: the copy loop's step
    start_arr,      \* per rank: the plan of the variable being copied
    count_arr,
    nc_dims,        \* per rank: dimensions declared through the rank's handle
    nc_vars,        \* per rank: variables declared through the rank's handle
    nc_coll,        \* per rank: variables switched to collective access
    nc_open,        \* per rank: whether the destination handle is open
    ad_open,        \* per rank: whether the source handle is open
    nc_data,        \* the destination file: variable name -> cell -> value
    nc_gatts,       \* the destination file: global attributes
    nc_vatts,       \* the destination file: variable name -> attributes
    trace,          \* per rank: the destination operations issued so far
    wcells          \* per rank: the <<variable index, cell>> pairs written

vars == <<src_attrs, src_vars, src_steps, nproc, diskless, pc, cur_step,
          var_attrs, global_attrs, dim_lens, var_dims, var_types, i_var, step,
          start_arr, count_arr, nc_dims, nc_vars, nc_coll, nc_open, ad_open,
          nc_data, nc_gatts, nc_vatts, trace, wcells>>

source == <<src_attrs, src_vars, src_steps, nproc, diskless>>
locals == <<var_attrs, global_attrs, dim_lens, var_dims, var_types>>
plan == <<start_arr, count_arr>>
schema == <<nc_dims, nc_vars>>
file == <<nc_data, nc_gatts, nc_vatts>>

Ranks == 0..(nproc - 1)

\* convert.py:12, the module's parallel flag
parallel == nproc > 1

NoCells == [c \in {} |-> <<>>]

\* an entry of a rank's trace
Event(ev, i, s, path) == [ev |-> ev, i |-> i, s |-> s, path |-> path]

\* The state of a process group of W ranks on a source, every rank standing
\* at first: before convert's first call ("open_files"), or, in a parallel
\* run, inside open_files with the source open, waiting in the collective
\* open of the destination ("opening").
InitWith(W, cat, steps, extra, dl, first) ==
    /\ nproc = W
    /\ src_vars = SourceVars(cat)
    /\ src_attrs = SourceAttrs(cat, extra)
    /\ src_steps = steps
    /\ diskless = dl
    /\ pc = [r \in 0..(W - 1) |-> first]
    /\ cur_step = [r \in 0..(W - 1) |-> 0]
    /\ var_attrs = [r \in 0..(W - 1) |-> <<>>]
    /\ global_attrs = [r \in 0..(W - 1) |-> <<>>]
    /\ dim_lens = [r \in 0..(W - 1) |-> <<>>]
    /\ var_dims = [r \in 0..(W - 1) |-> <<>>]
    /\ var_types = [r \in 0..(W - 1) |-> <<>>]
    /\ i_var = [r \in 0..(W - 1) |-> 0]
    /\ step = [r \in 0..(W - 1) |-> 0]
    /\ start_arr = [r \in 0..(W - 1) |-> <<>>]
    /\ count_arr = [r \in 0..(W - 1) |-> <<>>]
    /\ nc_dims = [r \in 0..(W - 1) |-> <<>>]
    /\ nc_vars = [r \in 0..(W - 1) |-> <<>>]
    /\ nc_coll = [r \in 0..(W - 1) |-> {}]
    /\ nc_open = [r \in 0..(W - 1) |-> FALSE]
    /\ ad_open = [r \in 0..(W - 1) |-> first = "opening"]
    /\ nc_data = [v \in {cat[j].name : j \in 1..Len(cat)} |-> NoCells]
    /\ nc_gatts = <<>>
    /\ nc_vatts = [v \in {cat[j].name : j \in 1..Len(cat)} |-> <<>>]
    /\ trace = [r \in 0..(W - 1) |->
                   IF first = "opening" THEN <<Event("open", -1, -1, "")>> ELSE <<>>]
    /\ wcells = [r \in 0..(W - 1) |-> {}]

\* the user attributes of a source: at most MaxAttrs of the pool, in its order
Extras ==
    {Pick(AttrPool, idx, 1) :
        idx \in {s \in SUBSET (1..Len(AttrPool)) : Cardinality(s) <= MaxAttrs}}

Init ==
    \E W \in 1..MaxRanks, cat \in Catalogs(VarPool, MaxVars), steps \in 1..MaxSteps,
       extra \in Extras, dl \in BOOLEAN :
        InitWith(W, cat, steps, extra, dl, "open_files")

\* ------------------------------------------------------- convert, per rank
\* convert's sequence of calls: the call that follows each one.
convert_next_attrs_first(p) ==
    CASE p = "open_files" -> "r_attrs"
      [] p = "r_attrs" -> "r_metadata"
      [] p = "r_metadata" -> "create_nc_dims"
      [] p = "create_nc_dims" -> "create_nc_vars"
      [] p = "create_nc_vars" -> "w_global_attrs"
      [] p = "w_global_attrs" -> "w_var_attrs"
      [] p = "w_var_attrs" -> "copy"
      [] p = "copy" -> "close_files"
      [] OTHER -> "done"

convert_next(p) ==
    CASE p = "open_files" -> "r_attrs"
      [] p = "r_attrs" -> "r_metadata"
      [] p = "r_metadata" -> "create_nc_dims"
      [] p = "create_nc_dims" -> "create_nc_vars"
      [] p = "create_nc_vars" -> "copy"
      [] p = "copy" -> "w_global_attrs"
      [] p = "w_global_attrs" -> "w_var_attrs"
      [] p = "w_var_attrs" -> "close_files"
      [] OTHER -> "done"

Log(r, ev) == trace' = [trace EXCEPT ![r] = Append(@, Event(ev, -1, -1, ""))]

\* an exception leaves convert: the rank's process ends
Raise(r) == pc' = [pc EXCEPT ![r] = "failed"]

\* open_files.  A serial run opens the source, positioned on its first
\* step, and the destination.  A rank of a parallel run opens the source
\* and enters Dataset(..., parallel=True), where it waits for the other ranks
\* of the group: it holds the source handle and no destination handle yet.
OpenFiles(r) ==
    /\ pc[r] = "open_files"
    /\ pc' = [pc EXCEPT ![r] = IF parallel THEN "opening" ELSE convert_next("open_files")]
    /\ cur_step' = [cur_step EXCEPT ![r] = 0]
    /\ ad_open' = [ad_open EXCEPT ![r] = TRUE]
    /\ nc_open' = [nc_open EXCEPT ![r] = ~parallel]
    /\ Log(r, "open")
    /\ UNCHANGED <<source, locals, i_var, step, plan, schema, nc_coll, file, wcells>>

\* The collective open of the destination: it takes place once every rank
\* of the group waits in it, and then every rank holds its destination
\* handle and returns from open_files.
CollectiveOpen ==
    /\ parallel
    /\ \A r \in Ranks : pc[r] = "opening"
    /\ pc' = [r \in Ranks |-> convert_next("open_files")]
    /\ nc_open' = [r \in Ranks |-> TRUE]
    /\ UNCHANGED <<source, cur_step, locals, i_var, step, plan, schema, nc_coll,
                   ad_open, file, trace, wcells>>

\* read_attribute, and read_attribute_string when it raises ValueError on a
\* textual value.  The reader holds a numerical attribute as a number; Value
\* is the reader's own rendering of that number, a numeral.
AttrVal(a) ==
    IF a.Type = "string"
    THEN [kind |-> "str", num |-> 0, str |-> a.Value]
    ELSE [kind |-> "num", num |-> IntOf(a.Value), str |-> <<>>]

\* var_attrs[var][var_attrib] = val on a defaultdict(dict)
SetVarAttr(va, var, name, val) ==
    DictSet(va, var, DictSet(IF var \in DictKeys(va) THEN DictGet(va, var) ELSE <<>>, name, val))

\* r_attrs' loop from attribute j on: [ok, var_attrs, global_attrs]
RECURSIVE r_attrs_loop(_, _, _, _)
r_attrs_loop(attrs, j, va, ga) ==
    IF j > Len(attrs) THEN [ok |-> TRUE, var_attrs |-> va, global_attrs |-> ga]
    ELSE LET attr == attrs[j].key
         IN  IF Contains(attr, SlashDims) THEN r_attrs_loop(attrs, j + 1, va, ga)
             ELSE IF Contains(attr, <<"/">>)
             THEN LET parts == Split(attr, "/")
                  IN  IF Len(parts) # 2
                      THEN [ok |-> FALSE, var_attrs |-> va, global_attrs |-> ga]
                      ELSE r_attrs_loop(attrs, j + 1,
                               SetVarAttr(va, parts[1], parts[2], AttrVal(attrs[j])), ga)
             ELSE IF ~StartsWith(attr, DimMarker)
             THEN r_attrs_loop(attrs, j + 1, va, DictSet(ga, attr, AttrVal(attrs[j])))
             ELSE r_attrs_loop(attrs, j + 1, va, ga)

r_attrs(attrs) == r_attrs_loop(attrs, 1, <<>>, <<>>)

RAttrs(r) ==
    /\ pc[r] = "r_attrs"
    /\ LET res == r_attrs(src_attrs)
       IN  IF res.ok
           THEN /\ var_attrs' = [var_attrs EXCEPT ![r] = res.var_attrs]
                /\ global_attrs' = [global_attrs EXCEPT ![r] = res.global_attrs]
                /\ pc' = [pc EXCEPT ![r] = convert_next("r_attrs")]
           ELSE /\ Raise(r)
                /\ UNCHANGED <<var_attrs, global_attrs>>
    /\ UNCHANGED <<source, cur_step, dim_lens, var_dims, var_types, i_var, step,
                   plan, schema, nc_coll, nc_open, ad_open, file, trace, wcells>>

\* the "_DIM_<name>" attributes, in order
DimAttrs(attrs) ==
    Pick(attrs, {j \in 1..Len(attrs) : StartsWith(attrs[j].key, DimMarker)}, 1)

\* {key[5:]: int(value["Value"]) for ... if key.startswith("_DIM_")}
DimLens(attrs) ==
    [j \in 1..Len(DimAttrs(attrs)) |->
        [k |-> DropPrefix(DimAttrs(attrs)[j].key, 5), v |-> IntOf(DimAttrs(attrs)[j].Value)]]

\* read_attribute_string("Dims", var): the names, or none when absent
ReadDims(attrs, var) ==
    LET at == {j \in 1..Len(attrs) : attrs[j].key = var \o SlashDims}
    IN  IF at = {} THEN <<>> ELSE attrs[CHOOSE j \in at : TRUE].Value

\* dims.reverse(); var_dims[var] = dims
VarDims(attrs, vs) ==
    [j \in 1..Len(vs) |-> [k |-> vs[j].name, v |-> Reverse(ReadDims(attrs, vs[j].name))]]

\* typemap (convert.py:93)
typemap ==
    << [k |-> "float", v |-> "f"], [k |-> "int32_t", v |-> "i"], [k |-> "string", v |-> "c"] >>

\* var_types[var] = typemap[vtype]
VarTypes(vs) ==
    [j \in 1..Len(vs) |->
        [k |-> vs[j].name,
         v |-> IF vs[j].Type \in DictKeys(typemap) THEN DictGet(typemap, vs[j].Type) ELSE "?"]]

\* whether r_metadata raises: int() on a dimension length that is no numeral
\* (ValueError), or typemap[vtype] on an unknown tag (KeyError)
r_metadata_raises_lazy(attrs, vs) ==
    \E j \in 1..Len(DimAttrs(attrs)) : ~IsInt(DimAttrs(attrs)[j].Value)

r_metadata_raises(attrs, vs) ==
    \/ \E j \in 1..Len(DimAttrs(attrs)) : ~IsInt(DimAttrs(attrs)[j].Value)
    \/ \E j \in 1..Len(vs) : vs[j].Type \notin DictKeys(typemap)

RMetadata(r) ==
    /\ pc[r] = "r_metadata"
    /\ IF r_metadata_raises(src_attrs, src_vars)
       THEN /\ Raise(r)
            /\ UNCHANGED <<dim_lens, var_dims, var_types>>
       ELSE /\ dim_lens' = [dim_lens EXCEPT ![r] = DimLens(src_attrs)]
            /\ var_dims' = [var_dims EXCEPT ![r] = VarDims(src_attrs, src_vars)]
            /\ var_types' = [var_types EXCEPT ![r] = VarTypes(src_vars)]
            /\ pc' = [pc EXCEPT ![r] = convert_next("r_metadata")]
    /\ UNCHANGED <<source, cur_step, var_attrs, global_attrs, i_var, step, plan,
                   schema, nc_coll, nc_open, ad_open, file, trace, wcells>>

\* createDimension one by one; a name already declared is an error of the
\* destination: [ok, dims]
RECURSIVE create_dims_loop(_, _, _)
create_dims_loop(dl, j, dims) ==
    IF j > Len(dl) THEN [ok |-> TRUE, dims |-> dims]
    ELSE IF dl[j].k \in DictKeys(dims) THEN [ok |-> FALSE, dims |-> dims]
    ELSE create_dims_loop(dl, j + 1, Append(dims, dl[j]))

create_nc_dims(num_steps, dl) ==
    create_dims_loop(dl, 1, <<[k |-> TimeName, v |-> num_steps]>>)

CreateNcDims(r) ==
    /\ pc[r] = "create_nc_dims"
    /\ LET res == create_nc_dims(src_steps, dim_lens[r])
       IN  /\ nc_dims' = [nc_dims EXCEPT ![r] = res.dims]
           /\ IF res.ok THEN pc' = [pc EXCEPT ![r] = convert_next("create_nc_dims")]
              ELSE Raise(r)
    /\ Log(r, "dims")
    /\ UNCHANGED <<source, cur_step, locals, i_var, step, plan, nc_vars, nc_coll,
                   nc_open, ad_open, file, wcells>>

\* createVariable one by one; a dimension that is not declared is an error
\* of the destination: [ok, vars]
RECURSIVE create_vars_loop(_, _, _, _, _)
create_vars_loop(vt, vd, dims, j, made) ==
    IF j > Len(vt) THEN [ok |-> TRUE, vars |-> made]
    ELSE IF ~(SeqRange(vd[j].v) \subseteq DictKeys(dims)) THEN [ok |-> FALSE, vars |-> made]
    ELSE create_vars_loop(vt, vd, dims, j + 1,
             Append(made, [k |-> vt[j].k, v |-> [type |-> vt[j].v, dims |-> vd[j].v]]))

create_nc_vars(vt, vd, dims) == create_vars_loop(vt, vd, dims, 1, <<>>)

CreateNcVars(r) ==
    /\ pc[r] = "create_nc_vars"
    /\ LET res == create_nc_vars(var_types[r], var_dims[r], nc_dims[r])
       IN  /\ nc_vars' = [nc_vars EXCEPT ![r] = res.vars]
           /\ IF res.ok THEN pc' = [pc EXCEPT ![r] = convert_next("create_nc_vars")]
              ELSE Raise(r)
    /\ Log(r, "vars")
    /\ UNCHANGED <<source, cur_step, locals, i_var, step, plan, nc_dims, nc_coll,
                   nc_open, ad_open, file, wcells>>

\* ------------------------------------------------- the destination's writes
\* The destination addresses a variable's storage as numpy does: an integer
\* selects one position of an axis, a slice is clipped to the axis, axes not
\* named are taken whole; more index items than axes, or an integer beyond
\* the axis, is an error.  Data conforms when it holds as many elements as
\* the addressed region, and is laid into the region in row-major order; data
\* of one element is spread over the region (Variable._put fills the region
\* with it); anything else is an error.  A write is [ok, cells]: the cells
\* it sets.
Refused == [ok |-> FALSE, cells |-> NoCells]

\* the shape a variable was declared with through rank r's handle
DeclShape(r, name) ==
    LET dims == DictGet(nc_vars[r], name).dims
    IN  [j \in 1..Len(dims) |-> DictGet(nc_dims[r], dims[j])]

Merge(f, g) ==
    [c \in (DOMAIN f) \cup (DOMAIN g) |-> IF c \in DOMAIN g THEN g[c] ELSE f[c]]

\* the row-major position of index c in an array of shape sh, and the index
\* at position n
RECURSIVE Ravel(_, _)
Ravel(c, sh) ==
    IF c = <<>> THEN 0
    ELSE Ravel(SubSeq(c, 1, Len(c) - 1), SubSeq(sh, 1, Len(sh) - 1)) * sh[Len(sh)] + c[Len(c)]

RECURSIVE Unravel(_, _)
Unravel(n, sh) ==
    IF sh = <<>> THEN <<>>
    ELSE Append(Unravel(n \div sh[Len(sh)], SubSeq(sh, 1, Len(sh) - 1)), n % sh[Len(sh)])

\* netcdff.variables[var][step] = data, data holding the one element d: the
\* index names the whole row of step s, whatever the rank's plan is
WriteIndex(ds, s, d) ==
    IF Len(ds) < 1 \/ s >= ds[1] THEN Refused
    ELSE [ok |-> TRUE, cells |-> [c \in {<<s>> \o t : t \in Box(Tail(ds))} |-> d]]

\* netcdff.variables[var][step, :] = data for a string: the row holds it
WriteString(ds, s, srcstep) ==
    IF Len(ds) < 2 \/ s >= ds[1] THEN Refused
    ELSE [ok |-> TRUE, cells |-> [c \in {<<s>>} |-> SrcVal(srcstep, <<>>)]]

\* netcdff.variables[var][step, s0:s0+c0, ...] = data, where data has shape
\* count and holds the source's cells start .. start+count of step srcstep;
\* a clipped region holds fewer cells than data
WriteSlices(ds, s, start, count, srcstep) ==
    IF Len(ds) < Len(start) + 1 \/ s >= ds[1] THEN Refused
    ELSE LET lo == [k \in 1..(Len(ds) - 1) |->
                       IF k <= Len(start) THEN Min(start[k], ds[k + 1]) ELSE 0]
             hi == [k \in 1..(Len(ds) - 1) |->
                       IF k <= Len(start) THEN Min(start[k] + count[k], ds[k + 1])
                       ELSE ds[k + 1]]
             region == [k \in 1..(Len(ds) - 1) |-> hi[k] - lo[k]]
         IN  IF region = count
             THEN [ok |-> TRUE,
                   cells |-> [c \in {<<s>> \o VecAdd(start, j) : j \in Box(count)} |->
                                 SrcVal(srcstep, Tail(c))]]
             ELSE IF Product(count) = 1
             THEN [ok |-> TRUE,
                   cells |-> [c \in {<<s>> \o VecAdd(lo, j) : j \in Box(region)} |->
                                 SrcVal(srcstep, start)]]
             ELSE Refused

\* netcdff.variables[var][step, :] = data, data being the whole variable
WriteFull(ds, s, dshape, srcstep) ==
    IF Len(ds) < 2 \/ s >= ds[1] THEN Refused
    ELSE IF Product(Tail(ds)) = Product(dshape)
    THEN [ok |-> TRUE,
          cells |-> [c \in {<<s>> \o j : j \in Box(Tail(ds))} |->
                        SrcVal(srcstep, Unravel(Ravel(Tail(c), Tail(ds)), dshape))]]
    ELSE IF Product(dshape) = 1
    THEN [ok |-> TRUE,
          cells |-> [c \in {<<s>> \o j : j \in Box(Tail(ds))} |->
                        SrcVal(srcstep, [k \in 1..Len(dshape) |-> 0])]]
    ELSE Refused

\* ------------------------------------------------------------ the copy loop
\* where a rank stands after the iteration (i, s) of the loops
Advance(i, s) ==
    IF s + 1 < src_steps THEN [pc |-> "step", i |-> i, s |-> s + 1]
    ELSE IF i + 1 < Len(src_vars) THEN [pc |-> "copy", i |-> i + 1, s |-> 0]
    ELSE [pc |-> convert_next("copy"), i |-> i + 1, s |-> 0]

GoOn(r) ==
    LET a == Advance(i_var[r], step[r])
    IN  /\ pc' = [pc EXCEPT ![r] = a.pc]
        /\ i_var' = [i_var EXCEPT ![r] = a.i]
        /\ step' = [step EXCEPT ![r] = a.s]

\* a write of rank r took effect on variable v (index i)
Store(r, i, name, cells) ==
    /\ nc_data' = [nc_data EXCEPT ![name] = Merge(@, cells)]
    /\ wcells' = [wcells EXCEPT ![r] = @ \cup {<<i, c>> : c \in DOMAIN cells}]

LogData(r, path) ==
    trace' = [trace EXCEPT ![r] = Append(@, Event("data", i_var[r], step[r], path))]

\* the head of the loop over variables; in parallel mode the plan of a
\* variable that is no string is made here (convert.py:153-154)
LoopVar(r) ==
    /\ pc[r] = "copy"
    /\ IF i_var[r] >= Len(src_vars)
       THEN /\ pc' = [pc EXCEPT ![r] = convert_next("copy")]
            /\ UNCHANGED plan
       ELSE LET v == src_vars[i_var[r] + 1]
            IN  IF parallel /\ v.Type # "string"
                THEN IF ShapeOk(v.Shape)
                     THEN /\ start_arr' = [start_arr EXCEPT ![r] = decomp(v.Shape, r, nproc)[1]]
                          /\ count_arr' = [count_arr EXCEPT ![r] = decomp(v.Shape, r, nproc)[2]]
                          /\ pc' = [pc EXCEPT ![r] = "step"]
                     ELSE /\ Raise(r)
                          /\ UNCHANGED plan
                ELSE /\ pc' = [pc EXCEPT ![r] = "step"]
                     /\ UNCHANGED plan
    /\ step' = [step EXCEPT ![r] = 0]
    /\ UNCHANGED <<source, cur_step, locals, i_var, schema, nc_coll, nc_open, ad_open,
                   file, trace, wcells>>

\* the write path of an iteration of r_w_data_serial: data is the whole
\* array, of the shape the reader renders as Shape
SerialPath(v) ==
    IF v.Type = "string" THEN "string"
    ELSE IF Len(ParseShape(v.Shape)) = 1 /\ ParseShape(v.Shape)[1] = 1 THEN "scalar"
    ELSE "full"

\* what an iteration of r_w_data_serial writes, read from step srcstep
SerialWrite(ds, v, s, srcstep) ==
    CASE SerialPath(v) = "string" -> WriteString(ds, s, srcstep)
      [] SerialPath(v) = "scalar" -> WriteIndex(ds, s, SrcVal(srcstep, <<0>>))
      [] OTHER -> WriteFull(ds, s, ParseShape(v.Shape), srcstep)

\* one iteration of r_w_data_serial's inner loop
CopySerial(r) ==
    /\ ~parallel
    /\ pc[r] = "step"
    /\ LET v == src_vars[i_var[r] + 1]
           w == SerialWrite(DeclShape(r, v.name), v, step[r], cur_step[r])
       IN  IF w.ok
           THEN /\ Store(r, i_var[r], v.name, w.cells)
                /\ LogData(r, SerialPath(v))
                /\ GoOn(r)
           ELSE /\ Raise(r)
                /\ UNCHANGED <<i_var, step, nc_data, wcells, trace>>
    /\ UNCHANGED <<source, cur_step, locals, plan, schema, nc_coll, nc_open, ad_open,
                   nc_gatts, nc_vatts>>

\* the write path of an iteration of r_w_data_parallel for a plan
ParallelPath(v, start, count) ==
    IF v.Type = "string" THEN "string"
    ELSE IF Len(count) = 1 /\ count[1] = 1 THEN "scalar"
    ELSE IF Len(start) \in {1, 2, 3} THEN "slice"
    ELSE "nowrite"

\* one iteration of r_w_data_parallel's inner loop, up to the point where
\* the rank enters the collective write
CopyParallel(r) ==
    /\ parallel
    /\ pc[r] = "step"
    /\ LET v == src_vars[i_var[r] + 1]
           ds == DeclShape(r, v.name)
           path == ParallelPath(v, start_arr[r], count_arr[r])
           w == CASE path = "string" -> WriteString(ds, step[r], cur_step[r])
                  [] path = "scalar" ->
                         WriteIndex(ds, step[r], SrcVal(cur_step[r], start_arr[r]))
                  [] path = "slice" ->
                         WriteSlices(ds, step[r], start_arr[r], count_arr[r], cur_step[r])
                  [] OTHER -> [ok |-> TRUE, cells |-> NoCells]
       IN  /\ nc_coll' = [nc_coll EXCEPT ![r] =
                             IF path \in {"slice", "nowrite"} THEN @ \cup {v.name} ELSE @]
           /\ IF ~w.ok
              THEN /\ Raise(r)
                   /\ UNCHANGED <<i_var, step, nc_data, wcells, trace>>
              ELSE IF path = "slice"
              THEN /\ pc' = [pc EXCEPT ![r] = "blocked"]
                   /\ LogData(r, path)
                   /\ UNCHANGED <<i_var, step, nc_data, wcells>>
              ELSE /\ Store(r, i_var[r], v.name, w.cells)
                   /\ LogData(r, path)
                   /\ GoOn(r)
    /\ UNCHANGED <<source, cur_step, locals, plan, schema, nc_open, ad_open,
                   nc_gatts, nc_vatts>>

\* the slabs of ranks r..nproc-1 laid over f
RECURSIVE Slabs(_, _, _, _)
Slabs(f, r, name, s) ==
    IF r >= nproc THEN f
    ELSE Slabs(Merge(f, WriteSlices(DeclShape(r, name), s, start_arr[r], count_arr[r],
                                    cur_step[r]).cells),
               r + 1, name, s)

\* The collective write of a variable's step: it takes place once every rank
\* of the group has entered it, and then every rank goes on.
CollectiveWrite ==
    /\ parallel
    /\ \A r \in Ranks : pc[r] = "blocked" /\ i_var[r] = i_var[0] /\ step[r] = step[0]
    /\ LET name == src_vars[i_var[0] + 1].name
           a == Advance(i_var[0], step[0])
       IN  /\ nc_data' = [nc_data EXCEPT ![name] = Slabs(@, 0, name, step[0])]
           /\ wcells' = [r \in Ranks |->
                            wcells[r] \cup
                            {<<i_var[0], c>> :
                                c \in DOMAIN WriteSlices(DeclShape(r, name), step[0],
                                          start_arr[r], count_arr[r], cur_step[r]).cells}]
           /\ pc' = [r \in Ranks |-> a.pc]
           /\ i_var' = [r \in Ranks |-> a.i]
           /\ step' = [r \in Ranks |-> a.s]
    /\ UNCHANGED <<source, cur_step, locals, plan, schema, nc_coll, nc_open, ad_open,
                   nc_gatts, nc_vatts, trace>>

\* ------------------------------------------------------ attributes, closing
RECURSIVE SetAll(_, _, _)
SetAll(d, new, j) == IF j > Len(new) THEN d ELSE SetAll(DictSet(d, new[j].k, new[j].v), new, j + 1)

\* netcdff.setncatts(global_attrs)
WGlobalAttrs(r) ==
    /\ pc[r] = "w_global_attrs"
    /\ nc_gatts' = SetAll(nc_gatts, global_attrs[r], 1)
    /\ pc' = [pc EXCEPT ![r] = convert_next("w_global_attrs")]
    /\ Log(r, "gatts")
    /\ UNCHANGED <<source, cur_step, locals, i_var, step, plan, schema, nc_coll,
                   nc_open, ad_open, nc_data, nc_vatts, wcells>>

\* w_var_attrs' loop from variable j on; netcdff.variables[var] raises
\* KeyError for a variable that was not declared: [ok, vatts]
RECURSIVE w_var_attrs_loop(_, _, _, _)
w_var_attrs_loop(va, declared, j, vatts) ==
    IF j > Len(va) THEN [ok |-> TRUE, vatts |-> vatts]
    ELSE IF va[j].k \notin declared THEN [ok |-> FALSE, vatts |-> vatts]
    ELSE w_var_attrs_loop(va, declared, j + 1,
             [vatts EXCEPT ![va[j].k] = SetAll(@, va[j].v, 1)])

WVarAttrs(r) ==
    /\ pc[r] = "w_var_attrs"
    /\ LET res == w_var_attrs_loop(var_attrs[r], DictKeys(nc_vars[r]), 1, nc_vatts)
       IN  /\ nc_vatts' = res.vatts
           /\ IF res.ok THEN pc' = [pc EXCEPT ![r] = convert_next("w_var_attrs")]
              ELSE Raise(r)
    /\ Log(r, "vatts")
    /\ UNCHANGED <<source, cur_step, locals, i_var, step, plan, schema, nc_coll,
                   nc_open, ad_open, nc_data, nc_gatts, wcells>>

\* close_files: the destination stays open in diskless mode
CloseFiles(r) ==
    /\ pc[r] = "close_files"
    /\ nc_open' = [nc_open EXCEPT ![r] = diskless]
    /\ ad_open' = [ad_open EXCEPT ![r] = FALSE]
    /\ pc' = [pc EXCEPT ![r] = convert_next("close_files")]
    /\ Log(r, "close")
    /\ UNCHANGED <<source, cur_step, locals, i_var, step, plan, schema, nc_coll,
                   file, wcells>>

\* ---------------------------------------------------------- specifications
\* Every rank is a process of its own: any rank may take its next step.
Next ==
    \/ \E r \in Ranks :
        \/ OpenFiles(r)
        \/ RAttrs(r)
        \/ RMetadata(r)
        \/ CreateNcDims(r)
        \/ CreateNcVars(r)
        \/ LoopVar(r)
        \/ CopySerial(r)
        \/ CopyParallel(r)
        \/ WGlobalAttrs(r)
        \/ WVarAttrs(r)
        \/ CloseFiles(r)
    \/ CollectiveOpen
    \/ CollectiveWrite

Spec == Init /\ [][Next]_vars

\* The same program on large process groups, from the moment every rank has
\* called open_files and waits in the collective open of the destination.
\* Nothing in convert.py orders the ranks between the collective operations,
\* so here, as in Spec, any rank may take its next step at any time once the
\* group has opened the destination.  The interleavings of 26 processes are
\* too many to enumerate: the orders in which the ranks arrive at the open
\* are left to Spec, and after the open the group is followed for as long as
\* no more than MaxActive of its ranks, whichever they are, have gone on; the
\* others are processes that have returned from open_files and have not been
\* scheduled since.  The collective write is no step of this specification:
\* it takes place once every rank of the group waits in it, which needs every
\* rank to have gone on.
Active == {q \in Ranks : pc[q] \notin {"opening", "r_attrs"}}

WideCatalogs == {<<VarB>>}

InitWide ==
    \E W \in MinWide..MaxWide, cat \in WideCatalogs, steps \in 1..WideSteps :
        InitWith(W, cat, steps, <<>>, FALSE, "opening")

NextWide ==
    \/ CollectiveOpen
    \/ \E r \in Ranks :
        \/ Cardinality(Active) < MaxActive /\ RAttrs(r)
        \/ RMetadata(r)
        \/ CreateNcDims(r)
        \/ CreateNcVars(r)
        \/ LoopVar(r)
        \/ CopyParallel(r)
        \/ WGlobalAttrs(r)
        \/ WVarAttrs(r)
        \/ CloseFiles(r)

SpecWide == InitWide /\ [][NextWide]_vars

\* The decomposition on its own: decomp applied for each rank of a world of
\* 1..MaxProc ranks to one variable of each of these shapes.
DecompShapes ==
    { <<"5", "0">>, <<"5", "1">>, <<"5", "2">>, <<"4", "9">>,
      <<"2", ",", "5", "0">>, <<"4", ",", "1", "0", "0">>,
      <<"5", "0", ",", "5", "0">>, <<"3", ",", "5", "3", ",", "2">>,
      <<"6", "0", ",", "1">>, <<"4", ",", " ", "1", "0", "0">>,
      <<"+", "5", "1">>, <<"5", "_", "2">>, <<"-", "3", ",", "6", "0">>,
      <<"U+000B", "5", "0", "U+00A0">>, <<"U+0665", "U+0660">>,
      <<"U+2003", "-", "U+FF15", "_", "1", "U+0085", ",", "6", "U+06F0">> }

InitDecomp ==
    \E W \in 1..MaxProc, shape \in DecompShapes :
        InitWith(W, <<[name |-> <<"V">>, Type |-> "float", Shape |-> shape,
                       Dims |-> <<TimeName>>]>>,
                 1, <<>>, FALSE, "decomp")

DecompOnly(r) ==
    /\ pc[r] = "decomp"
    /\ \A q \in Ranks : q < r => pc[q] = "planned"
    /\ start_arr' = [start_arr EXCEPT ![r] = decomp(src_vars[1].Shape, r, nproc)[1]]
    /\ count_arr' = [count_arr EXCEPT ![r] = decomp(src_vars[1].Shape, r, nproc)[2]]
    /\ pc' = [pc EXCEPT ![r] = "planned"]
    /\ UNCHANGED <<source, cur_step, locals, i_var, step, schema, nc_coll, nc_open,
                   ad_open, file, trace, wcells>>

NextDecomp == \E r \in Ranks : DecompOnly(r)

SpecDecomp == InitDecomp /\ [][NextDecomp]_vars

\* ------------------------------------------------------------------ claims
Planned == {r \in Ranks : pc[r] = "planned"}

\* the shape, the partitioned axis and its length of the variable rank r copies
ShapeAt(i) == ParseShape(src_vars[i + 1].Shape)

\* the indices rank r's plan covers on axis ax
Interval(r, ax) == start_arr[r][ax]..(start_arr[r][ax] + count_arr[r][ax] - 1)

\* C1: for a largest axis of length L >= 50 and any world size, the ranks'
\* intervals on that axis are pairwise disjoint, together they are exactly
\* 0..L-1, the last rank's count is L div W + L mod W, and on every other axis
\* each rank starts at 0 and counts the whole axis.
C1_Partition ==
    LET dshape == ShapeAt(0)
        ax == ArgMax(dshape)
        L == dshape[ax]
    IN  (Planned # {} /\ L >= DecompThreshold) =>
            /\ \A r1, r2 \in Planned :
                   r1 # r2 => Interval(r1, ax) \cap Interval(r2, ax) = {}
            /\ Planned = Ranks => UNION {Interval(r, ax) : r \in Ranks} = 0..(L - 1)
            /\ (nproc - 1) \in Planned =>
                   count_arr[nproc - 1][ax] = (L \div nproc) + (L % nproc)
            /\ \A r \in Planned : \A k \in 1..Len(dshape) :
                   k # ax => start_arr[r][k] = 0 /\ count_arr[r][k] = dshape[k]

\* C1's case: every rank of a world larger than the axis has its plan, and
\* the axis does not divide evenly
C1_Witness ==
    /\ Planned = Ranks
    /\ Planned # {}
    /\ ShapeAt(0)[ArgMax(ShapeAt(0))] >= DecompThreshold
    /\ nproc > ShapeAt(0)[ArgMax(ShapeAt(0))]
    /\ Len(ShapeAt(0)) > 1

\* ---- claims about the whole conversion
Finished == \A r \in Ranks : pc[r] = "done"

NameOf(i) == src_vars[i + 1].name

\* C2: after convert completes on a source of two or more steps, every
\* destination cell [s, ...] of every variable holds the source's value of
\* step s.
C2_StepValues ==
    (Finished /\ src_steps >= 2) =>
        \A i \in 0..(Len(src_vars) - 1) : \A c \in DOMAIN nc_data[NameOf(i)] :
            nc_data[NameOf(i)][c][1] = c[1]

\* the shape variable i is declared with, from the source alone
RefShape(i) ==
    LET dims == VarDims(src_attrs, src_vars)[i + 1].v
        lens == create_nc_dims(src_steps, DimLens(src_attrs)).dims
    IN  [k \in 1..Len(dims) |-> DictGet(lens, dims[k])]

\* the destination's data after r_w_data_serial ran from iteration (i, s) on
RECURSIVE SerialRun(_, _, _)
SerialRun(i, s, data) ==
    IF i >= Len(src_vars) THEN data
    ELSE LET w == SerialWrite(RefShape(i), src_vars[i + 1], s, 0)
         IN  IF ~w.ok THEN data
             ELSE SerialRun(Advance(i, s).i, Advance(i, s).s,
                            [data EXCEPT ![NameOf(i)] = Merge(@, w.cells)])

CopyDone(r) == pc[r] \in {"w_global_attrs", "w_var_attrs", "close_files", "done"}

\* C3: for a world of two or more ranks, once every rank has finished
\* r_w_data_parallel each cell the serial path writes holds the same value
\* in the destination.
C3_ParallelIsSerial ==
    (parallel /\ \A r \in Ranks : CopyDone(r)) =>
        LET ser == SerialRun(0, 0, [v \in DOMAIN nc_data |-> NoCells])
        IN  \A v \in DOMAIN nc_data : \A c \in DOMAIN ser[v] :
                c \in DOMAIN nc_data[v] /\ nc_data[v][c] = ser[v][c]

\* rank r holds a plan for the variable it is copying
HasPlan(r) ==
    /\ parallel
    /\ pc[r] \in {"step", "blocked"}
    /\ src_vars[i_var[r] + 1].Type # "string"

\* C4: a rank's plan is indexed in destination axis order: for the shape
\* [4,100] on two ranks rank 0 has start [0,0] count [50,4] and rank 1 start
\* [50,0] count [50,4], and for every variable, rank and axis k the range
\* start[k] .. start[k]+count[k] lies within destination axis k.
C4_PlanAxes ==
    \A r \in Ranks : HasPlan(r) =>
        /\ (ShapeAt(i_var[r]) = <<4, 100>> /\ nproc = 2) =>
               start_arr[r] = <<50 * r, 0>> /\ count_arr[r] = <<50, 4>>
        /\ \A k \in 1..Len(start_arr[r]) :
               k + 1 <= Len(DeclShape(r, NameOf(i_var[r]))) =>
                   start_arr[r][k] + count_arr[r][k]
                       <= DeclShape(r, NameOf(i_var[r]))[k + 1]

\* C5: once the attribute writers ran, every source key without a separator
\* and without the dimension marker is a global attribute with its value,
\* every key <var>/<name> of a catalog variable <var> whose name is not "Dims"
\* is attribute <name> of variable <var> with its value, and no key with a separator is global.
C5_Attributes ==
    (\E r \in Ranks : pc[r] \in {"close_files", "done"}) =>
        \A j \in 1..Len(src_attrs) :
            LET a == src_attrs[j]
                parts == Split(a.key, "/")
            IN  /\ (Len(parts) = 1 /\ ~StartsWith(a.key, DimMarker)) =>
                       /\ a.key \in DictKeys(nc_gatts)
                       /\ DictGet(nc_gatts, a.key) = AttrVal(a)
                /\ (Len(parts) = 2 /\ parts[2] # DimsAttr /\ parts[1] \in DOMAIN nc_vatts) =>
                       /\ parts[2] \in DictKeys(nc_vatts[parts[1]])
                       /\ DictGet(nc_vatts[parts[1]], parts[2]) = AttrVal(a)
                /\ Len(parts) >= 2 => a.key \notin DictKeys(nc_gatts)

\* C6: every variable is declared with "Time" as its first dimension,
\* followed by the source's dimension names reversed, whatever the source's
\* "Dims" list holds, and the "Time" dimension has length stepCount.
C6_TimeFirst ==
    \A r \in Ranks : \A j \in 1..Len(nc_vars[r]) :
        LET declared == nc_vars[r][j].v.dims
            named == ReadDims(src_attrs, nc_vars[r][j].k)
        IN  /\ declared # <<>>
            /\ declared[1] = TimeName
            /\ Tail(declared) = Reverse(named) \/ declared = Reverse(named)
            /\ DictGet(nc_dims[r], TimeName) = src_steps

\* a variable of the catalog has an element type outside the three known
BadType == \E j \in 1..Len(src_vars) : src_vars[j].Type \notin {"float", "int32_t", "string"}

\* C7: with a variable of an unknown element type anywhere in the catalog,
\* no rank gets past r_metadata: no dimension and no variable is declared,
\* no data and no attribute is written.
C7_FailsBeforeSchema ==
    BadType =>
        /\ \A r \in Ranks :
               /\ pc[r] \in {"open_files", "opening", "r_attrs", "r_metadata", "failed"}
               /\ nc_dims[r] = <<>>
               /\ nc_vars[r] = <<>>
               /\ wcells[r] = {}
        /\ \A v \in DOMAIN nc_data : nc_data[v] = NoCells /\ nc_vatts[v] = <<>>
        /\ nc_gatts = <<>>

\* C7's case: r_metadata raised on a catalog whose second variable is the
\* one of unknown type
C7_Witness ==
    /\ Len(src_vars) = 2
    /\ src_vars[2].Type = "double"
    /\ r_attrs(src_attrs).ok
    /\ \E r \in Ranks : pc[r] = "failed"

\* the data writes of rank r's trace agree on the path with those of rank q
SamePaths(r, q) ==
    \A a \in 1..Len(trace[r]) : \A b \in 1..Len(trace[q]) :
        (/\ trace[r][a].ev = "data"
         /\ trace[q][b].ev = "data"
         /\ trace[r][a].i = trace[q][b].i
         /\ trace[r][a].s = trace[q][b].s)
            => ((trace[r][a].path = "slice") <=> (trace[q][b].path = "slice"))

\* C8: in parallel mode all ranks take the same write path for a variable's
\* step: either every rank issues the collective slice write or none does,
\* so no rank waits in a collective write that another rank has passed by.
C8_SamePath ==
    parallel =>
        /\ \A r, q \in Ranks : SamePaths(r, q)
        /\ \A r, q \in Ranks :
               pc[r] = "blocked" =>
                   ~(\/ i_var[q] > i_var[r]
                     \/ (i_var[q] = i_var[r] /\ step[q] > step[r])
                     \/ pc[q] = "done")

\* the order of the operations of one rank's trace
Ordered(t) ==
    \A a, b \in 1..Len(t) : a < b =>
        /\ t[b].ev \in {"dims", "vars"} => t[a].ev \notin {"data", "gatts", "vatts"}
        /\ (t[a].ev = "data" /\ t[b].ev = "data") =>
               \/ t[a].i < t[b].i
               \/ (t[a].i = t[b].i /\ t[a].s < t[b].s)
        /\ t[a].ev \in {"gatts", "vatts"} => t[b].ev # "data"
        /\ t[a].ev = "close" => FALSE

\* C9: in every execution, a rank declares all dimensions and variables
\* before its first data write, writes data in increasing (variable, step)
\* order, and writes the attributes after its last data write and before it
\* closes the files.
C9_Order ==
    \A r \in Ranks :
        /\ Ordered(trace[r])
        /\ (\E a \in 1..Len(trace[r]) : trace[r][a].ev = "data") =>
               /\ \E a \in 1..Len(trace[r]) : trace[r][a].ev = "dims"
               /\ \E a \in 1..Len(trace[r]) : trace[r][a].ev = "vars"
               /\ Len(nc_vars[r]) = Len(src_vars)
        /\ pc[r] = "done" =>
               /\ \E a \in 1..Len(trace[r]) : trace[r][a].ev = "gatts"
               /\ \E a \in 1..Len(trace[r]) : trace[r][a].ev = "vatts"
               /\ trace[r][Len(trace[r])].ev = "close"
               /\ Cardinality({a \in 1..Len(trace[r]) : trace[r][a].ev = "data"})
                      = Len(src_vars) * src_steps

\* C9's case: a rank of a parallel run went through two variables of two
\* steps each, wrote the attributes and closed the files
C9_Witness ==
    /\ parallel
    /\ Len(src_vars) = 2
    /\ src_steps = 2
    /\ \E r \in Ranks : pc[r] = "done" /\ var_attrs[r] # <<>>

\* C10: for a variable that is no string and whose largest axis is 50 or
\* longer, every cell a rank writes lies inside the rank's own interval of
\* the partitioned axis, so no cell is written by two ranks.
C10_OwnSlab ==
    parallel =>
        \A r \in Ranks : \A w \in wcells[r] :
            LET v == src_vars[w[1] + 1]
                dshape == ParseShape(v.Shape)
                ax == ArgMax(dshape)
                p == decomp(v.Shape, r, nproc)
            IN  (v.Type # "string" /\ dshape[ax] >= DecompThreshold) =>
                    /\ Len(w[2]) > ax
                    /\ w[2][ax + 1] >= p[1][ax]
                    /\ w[2][ax + 1] < p[1][ax] + p[2][ax]
                    /\ \A q \in Ranks : q # r => w \notin wcells[q]
====
